---- MODULE Spec2Model ----
(***************************************************************************)
(* A model of simple_graph_sqlite/database.py: the atomic transaction      *)
(* wrapper, the node and edge statements run through it, and the callers   *)
(* that invoke them.  A caller is a thread of the host application; every  *)
(* public operation is one call of atomic(db_file, unit).  On top of it    *)
(* are the GraphDB singleton of base.py and graphviz_visualize of          *)
(* visualizers.py.                                                         *)
(***************************************************************************)
EXTENDS Integers, Sequences, FiniteSets, Bags, TLC

\* ------------------------------------------------------------------ bounds

\* At most this many edge rows in the store (connects are refused beyond it).
MaxEdges == 2
\* The longest list handed to a bulk operation.
MaxBatch == 2
\* The longest row stream a neighbor query yields.
MaxRows == 2
\* The longest clause list and the longest binding list of a search.
MaxClauses == 2
MaxBindings == 2
\* The longest path handed to graphviz_visualize.
MaxPath == 2
\* At most this many calls of get_instance and getDB are followed.
MaxGets == 2

\* ------------------------------------------------------------- value domains

Procs == {"c1", "c2"}
\* Identifiers are Python str or int; the model writes them as strings.
Ids == {"1", "2"}
None == "None"
\* Python values a unit returns; Unset is an unbound local.
Unset == [t |-> "unset"]
PyNone == [t |-> "None"]
PyDict(d) == [t |-> "dict", v |-> d]
PyList(l) == [t |-> "list", v |-> l]
\* A traversal target is None, an int or a str.
PyInt(n) == [t |-> "int", v |-> n]
PyStr(x) == [t |-> "str", v |-> x]
\* The list of tuples fetchall returns, as a bag of rows.
PyRows(b) == [t |-> "rows", v |-> b]
\* The list of documents a search returns, as a set.
PyDocs(ds) == [t |-> "docs", v |-> ds]
Vals == {"1", "2"}

\* A document is a Python dict with string keys: a function on its key set.
EmptyDoc == << >>
DocsOver(K) == UNION {[D -> Vals] : D \in SUBSET K}
\* The documents callers pass: "id" absent, equal to or different from the
\* identifier; "a" absent or with one of two values, so that a merge can
\* keep, add or overwrite it.
Documents == {d \in DocsOver({"id", "a"}) : "id" \in DOMAIN d => d["id"] = "2"}
BulkDocuments == {[a |-> "2"]}
\* The properties connect_nodes is called with; bulk connects pass {}.
Properties == {[w |-> "1"]}

\* `x in sq` for a Python list.
InSeq(x, sq) == \E k \in 1..Len(sq) : sq[k] = x

\* `not current_data`: an empty dict is falsy.
Falsy(d) == DOMAIN d = {}

\* ------------------------------------------------------------------- JSON

\* json.dumps of a dict: the text lists the key/value pairs of the dict.
json_dumps(d) == {<<k, d[k]>> : k \in DOMAIN d}
\* json.loads of such a text: the dict of its pairs.
json_loads(t) == [k \in {p[1] : p \in t} |-> (CHOOSE p \in t : p[1] = k)[2]]
\* json_extract(body, '$.id'): NULL when the document has no "id".
Null == "NULL"
json_extract_id(t) == IF \E p \in t : p[1] = "id"
                      THEN (CHOOSE p \in t : p[1] = "id")[2] ELSE Null

\* json.dumps of a traversal target: null, the digits of an int, a quoted str.
json_dumps_id(x) ==
    CASE x.t = "None" -> "null"
      [] x.t = "int" -> x.v
      [] x.t = "str" -> "\"" \o x.v \o "\""

\* ------------------------------------------------------- the storage engine
\* A store is [nodes: set of rows [id, body], edges: bag of rows
\* [source, target, properties]] ; a statement yields [ok, store].

EmptyStore == [nodes |-> {}, edges |-> EmptyBag]
NodeIds(st) == {r.id : r \in st.nodes}
Okay(st) == [ok |-> TRUE, store |-> st]
Fail(st) == [ok |-> FALSE, store |-> st]

\* insert-node.sql, bound to one JSON text: the row's id is the document's
\* "id"; the primary key rejects a missing id and an id already present.
InsertNodeSql(st, body) ==
    LET i == json_extract_id(body) IN
    IF i = Null \/ i \in NodeIds(st)
    THEN Fail(st)
    ELSE Okay([st EXCEPT !.nodes = @ \cup {[id |-> i, body |-> body]}])

\* update-node.sql, bound to (JSON text, identifier): rewrites the document
\* of the row whose id is the identifier.
UpdateNodeSql(st, body, identifier) ==
    Okay([st EXCEPT !.nodes =
            {IF r.id = identifier THEN [r EXCEPT !.body = body] ELSE r : r \in @}])

\* insert-edge.sql, bound to (source, target, JSON text): with foreign keys
\* enforced, both endpoints must be ids of node rows.
InsertEdgeSql(st, fkOn, s, t, props) ==
    IF fkOn /\ ~({s, t} \subseteq NodeIds(st))
    THEN Fail(st)
    ELSE Okay([st EXCEPT !.edges =
                 @ (+) SetToBag({[source |-> s, target |-> t, properties |-> props]})])

\* delete-edge.sql, bound to (identifier, identifier).
DeleteEdgeSql(st, a, b) ==
    Okay([st EXCEPT !.edges =
            [e \in {x \in DOMAIN @ : ~(x.source = a \/ x.target = b)} |-> @[e]]])

\* delete-node.sql, bound to one identifier: with foreign keys enforced, a
\* node that an edge still references cannot be deleted.
DeleteNodeSql(st, fkOn, identifier) ==
    IF /\ fkOn
       /\ identifier \in NodeIds(st)
       /\ \E e \in DOMAIN st.edges : e.source = identifier \/ e.target = identifier
    THEN Fail(st)
    ELSE Okay([st EXCEPT !.nodes = {r \in @ : r.id # identifier}])

\* search-edges.sql, bound to (identifier, identifier): the edge rows whose
\* source is the first or whose target is the second, each as often as stored.
SearchEdgesSql(st, a, b) ==
    [e \in {x \in DOMAIN st.edges : x.source = a \/ x.target = b} |-> st.edges[e]]
\* search-edges-inbound.sql, bound to one identifier.
SearchEdgesInboundSql(st, identifier) ==
    [e \in {x \in DOMAIN st.edges : x.target = identifier} |-> st.edges[e]]
\* search-edges-outbound.sql, bound to one identifier.
SearchEdgesOutboundSql(st, identifier) ==
    [e \in {x \in DOMAIN st.edges : x.source = identifier} |-> st.edges[e]]

\* cursor.execute(sql, params).fetchall() of an edge search: a bag of rows
\* (the engine's row order is not modelled).
FetchEdges(st, sql, params) ==
    CASE sql = "search-edges.sql" -> SearchEdgesSql(st, params[1], params[2])
      [] sql = "search-edges-inbound.sql" -> SearchEdgesInboundSql(st, params[1])
      [] sql = "search-edges-outbound.sql" -> SearchEdgesOutboundSql(st, params[1])

\* The id lookup of find_node: the body of the row with that id, or no row.
SelectNodeSql(st, identifier) == {r.body : r \in {x \in st.nodes : x.id = identifier}}

\* A writing statement with its bound parameters, as cursor.execute gets it.
InsertNode(body) == [sql |-> "insert-node.sql", body |-> body]
UpdateNode(body, identifier) == [sql |-> "update-node.sql", body |-> body, id |-> identifier]
InsertEdge(s, t, props) ==
    [sql |-> "insert-edge.sql", source |-> s, target |-> t, properties |-> props]
DeleteEdge(a, b) == [sql |-> "delete-edge.sql", source |-> a, target |-> b]
DeleteNode(identifier) == [sql |-> "delete-node.sql", id |-> identifier]

\* cursor.execute(read_sql(q.sql), parameters) on a connection's view.
ExecuteSql(st, fkOn, q) ==
    CASE q.sql = "insert-node.sql" -> InsertNodeSql(st, q.body)
      [] q.sql = "update-node.sql" -> UpdateNodeSql(st, q.body, q.id)
      [] q.sql = "insert-edge.sql" -> InsertEdgeSql(st, fkOn, q.source, q.target, q.properties)
      [] q.sql = "delete-edge.sql" -> DeleteEdgeSql(st, q.source, q.target)
      [] q.sql = "delete-node.sql" -> DeleteNodeSql(st, fkOn, q.id)

\* The statements of qs applied in order, while each succeeds.
RECURSIVE Replay(_, _, _)
Replay(st, fkOn, qs) ==
    IF qs = << >> THEN Okay(st)
    ELSE LET r == ExecuteSql(st, fkOn, Head(qs)) IN
         IF r.ok THEN Replay(r.store, fkOn, Tail(qs)) ELSE r

\* ---------------------------------------------------------- database.py

\* Mutant of set_id: data.setdefault("id", identifier), an "id" the document
\* brings is kept.
SetIdIfMissing(identifier, data) ==
    IF identifier # None /\ "id" \notin DOMAIN data
    THEN [k \in DOMAIN data \cup {"id"} |->
            IF k = "id" THEN identifier ELSE data[k]]
    ELSE data

\* _set_id(identifier, data): data["id"] = identifier unless it is None.
set_id(identifier, data) ==
    IF identifier # None
    THEN [k \in DOMAIN data \cup {"id"} |->
            IF k = "id" THEN identifier ELSE data[k]]
    ELSE data

\* Mutant of Merge: {**data, **current_data}, the stored value wins.
MergeCurrentWins(current, data) ==
    [k \in DOMAIN current \cup DOMAIN data |->
        IF k \in DOMAIN current THEN current[k] ELSE data[k]]

\* {**current_data, **data}
Merge(current, data) ==
    [k \in DOMAIN current \cup DOMAIN data |->
        IF k \in DOMAIN data THEN data[k] ELSE current[k]]

\* Mutant of find_node: the lookup has lost its WHERE clause and returns the
\* first row there is.
FindAnyNode(st, identifier) ==
    IF st.nodes = {} THEN EmptyDoc
    ELSE json_loads((CHOOSE r \in st.nodes : TRUE).body)

\* find_node(identifier)(cursor): {} if no row, else json.loads(row[0]).
find_node(st, identifier) ==
    LET rows == SelectNodeSql(st, identifier) IN
    IF rows = {} THEN EmptyDoc ELSE json_loads(CHOOSE b \in rows : TRUE)

\* ------------------------------------------------------- units of work
\* A call is [op, docs, ids, tgts, ...]: the operation and the caller's
\* argument objects (docs are the caller's dicts, which a unit may change in
\* place).  A unit runs as a sequence of statements, each one cursor.execute;
\* the statement of an upsert is decided by the lookup before it.

Min(a, b) == IF a < b THEN a ELSE b
\* Mutant of ZipLen: lists of different lengths zip to nothing.
ZipLenStrict(call) ==
    IF Len(call.docs) = Len(call.ids) THEN Len(call.docs) ELSE 0
\* zip(nodes, ids) stops at the end of the shorter list.
ZipLen(call) == Min(Len(call.docs), Len(call.ids))
Flatten(ss) ==
    LET RECURSIVE flat(_)
        flat(k) == IF k > Len(ss) THEN << >> ELSE ss[k] \o flat(k + 1)
    IN flat(1)

SqlStmt(q) == [k |-> "sql", q |-> q]
FindStmt(identifier) == [k |-> "find", id |-> identifier]
\* The write half of _upsert_node for the j-th document of the call.
UpsertStmt(identifier, j) == [k |-> "upsert", id |-> identifier, j |-> j]
TraverseStmt == [k |-> "traverse"]
LoopStmt == [k |-> "loop"]
SearchStmt(query, bindings) == [k |-> "search", query |-> query, bindings |-> bindings]
EdgesStmt(sql, params) == [k |-> "edges", sql |-> sql, params |-> params]

\* add_node(data, identifier): _insert_node sets the id in the caller's dict
\* and inserts its JSON.
add_node(call) ==
    LET d == set_id(call.ids[1], call.docs[1]) IN
    [docs |-> <<d>>, prog |-> <<SqlStmt(InsertNode(json_dumps(d)))>>]

\* add_nodes(nodes, ids): the parameter list is built first (every zipped
\* dict gets its id), then executemany inserts row by row.
add_nodes(call) ==
    LET n == ZipLen(call)
        ds == [j \in 1..Len(call.docs) |->
                 IF j <= n THEN set_id(call.ids[j], call.docs[j]) ELSE call.docs[j]]
    IN [docs |-> ds,
        prog |-> [j \in 1..n |-> SqlStmt(InsertNode(json_dumps(ds[j])))]]

\* Mutant of upsert_node: the edges of the node are deleted before the write.
UpsertNodeReplacing(call) ==
    [docs |-> call.docs,
     prog |-> <<SqlStmt(DeleteEdge(call.ids[1], call.ids[1])),
                FindStmt(call.ids[1]), UpsertStmt(call.ids[1], 1)>>]

\* upsert_node(identifier, data): _upsert_node reads, then writes.
upsert_node(call) ==
    [docs |-> call.docs,
     prog |-> <<FindStmt(call.ids[1]), UpsertStmt(call.ids[1], 1)>>]

\* Mutant of upsert_nodes: every lookup runs before the first write.
UpsertNodesReadFirst(call) ==
    [docs |-> call.docs,
     prog |-> [j \in 1..ZipLen(call) |-> FindStmt(call.ids[j])]
              \o [j \in 1..ZipLen(call) |-> UpsertStmt(call.ids[j], j)]]

\* upsert_nodes(nodes, ids): _upsert_node per zipped pair, in list order.
upsert_nodes(call) ==
    [docs |-> call.docs,
     prog |-> Flatten([j \in 1..ZipLen(call) |->
                         <<FindStmt(call.ids[j]), UpsertStmt(call.ids[j], j)>>])]

\* Mutant of connect_nodes: the edges from the source or to the target are
\* replaced by the new edge.
ConnectNodesReplacing(call) ==
    [docs |-> call.docs,
     prog |-> <<SqlStmt(DeleteEdge(call.ids[1], call.tgts[1])),
                SqlStmt(InsertEdge(call.ids[1], call.tgts[1],
                                   json_dumps(call.docs[1])))>>]

\* connect_nodes(source_id, target_id, properties)
connect_nodes(call) ==
    [docs |-> call.docs,
     prog |-> <<SqlStmt(InsertEdge(call.ids[1], call.tgts[1],
                                   json_dumps(call.docs[1])))>>]

\* connect_many_nodes(sources, targets, properties): executemany over the zip.
connect_many_nodes(call) ==
    LET n == Min(ZipLen(call), Len(call.tgts)) IN
    [docs |-> call.docs,
     prog |-> [j \in 1..n |->
                 SqlStmt(InsertEdge(call.ids[j], call.tgts[j],
                                    json_dumps(call.docs[j])))]]

\* Mutant of remove_node: the node row is deleted before its edges.
RemoveNodeFirst(call) ==
    [docs |-> call.docs,
     prog |-> <<SqlStmt(DeleteNode(call.ids[1])),
                SqlStmt(DeleteEdge(call.ids[1], call.ids[1]))>>]

\* Mutant of remove_node: the edges of every node are deleted.
RemoveNodeAllEdges(call) ==
    [docs |-> call.docs,
     prog |-> <<SqlStmt(DeleteEdge("1", "1")), SqlStmt(DeleteEdge("2", "2")),
                SqlStmt(DeleteNode(call.ids[1]))>>]

\* remove_node(identifier): the edges of the node, then the node.
remove_node(call) ==
    [docs |-> call.docs,
     prog |-> <<SqlStmt(DeleteEdge(call.ids[1], call.ids[1])),
                SqlStmt(DeleteNode(call.ids[1]))>>]

\* remove_nodes(identifiers): executemany of delete-edge, then of delete-node.
remove_nodes(call) ==
    [docs |-> call.docs,
     prog |-> [j \in 1..Len(call.ids) |->
                 SqlStmt(DeleteEdge(call.ids[j], call.ids[j]))]
              \o [j \in 1..Len(call.ids) |-> SqlStmt(DeleteNode(call.ids[j]))]]

\* Mutant of find_node_unit: the node is deleted once it has been read.
FindNodeConsuming(call) ==
    [docs |-> call.docs,
     prog |-> <<FindStmt(call.ids[1]),
                SqlStmt(DeleteEdge(call.ids[1], call.ids[1])),
                SqlStmt(DeleteNode(call.ids[1]))>>]

\* find_node(identifier) as a unit: one lookup, whose result it returns.
find_node_unit(call) ==
    [docs |-> call.docs, prog |-> <<FindStmt(call.ids[1])>>]

\* traverse(db_file, src, tgt, neighbors_fn, with_bodies): _traverse runs the
\* neighbor query and loops over its rows.
traverse(call) ==
    [docs |-> call.docs, prog |-> <<TraverseStmt>>]

\* Query text is a sequence of tokens.  A template renders the variables it
\* is given, a variable it is not given as nothing.
Absent == ""
\* clause_template.render(and_or, key, tree, predicate, key_value)
RenderClause(and_or, key, tree, predicate, key_value) ==
    <<and_or, key, tree, predicate, key_value>>
\* search_template.render(result_column, tree, key, search_clauses)
RenderSearch(result_column, tree, key, search_clauses) ==
    <<result_column, tree, key>> \o Flatten(search_clauses)

\* _generate_clause(key, predicate, joiner, tree, tree_with_key)
generate_clause(key, predicate, joiner, tree, tree_with_key) ==
    LET pr == IF predicate = None THEN "=" ELSE predicate
        j == IF joiner = None THEN "" ELSE joiner
    IN IF tree
       THEN IF tree_with_key
            THEN RenderClause(j, key, "True", pr, Absent)
            ELSE RenderClause(j, Absent, "True", pr, Absent)
       ELSE RenderClause(j, key, Absent, pr, "True")

\* _generate_query(where_clauses, result_column, key, tree)
generate_query(where_clauses, result_column, key, tree) ==
    LET rc == IF result_column = None THEN "body" ELSE result_column IN
    IF tree
    THEN IF key # None /\ key # ""
         THEN RenderSearch(rc, "True", key, where_clauses)
         ELSE RenderSearch(rc, "True", Absent, where_clauses)
    ELSE RenderSearch(rc, Absent, Absent, where_clauses)

\* Mutant of find_nodes: the bound values are written into the query text.
FindNodesInterpolated(call) ==
    [docs |-> call.docs,
     prog |-> <<SearchStmt(generate_query(call.ids, None, call.tgts[1],
                                          call.tgts[2] = "True") \o call.docs,
                           << >>)>>]

\* find_nodes(where_clauses, bindings, tree_query, key): the call holds the
\* clauses in ids, the bindings in docs, key and tree_query in tgts.
find_nodes(call) ==
    [docs |-> call.docs,
     prog |-> <<SearchStmt(generate_query(call.ids, None, call.tgts[1],
                                          call.tgts[2] = "True"),
                           call.docs)>>]

\* connections_in() and connections_out(): the SQL of one direction.
connections_in == "search-edges-inbound.sql"
connections_out == "search-edges-outbound.sql"

\* get_connections_one_way(identifier, direction); the call names the
\* direction function in tgts.
get_connections_one_way(call) ==
    [docs |-> call.docs,
     prog |-> <<EdgesStmt(IF call.tgts[1] = "connections_in"
                          THEN connections_in ELSE connections_out,
                          <<call.ids[1]>>)>>]

\* Mutant of get_connections: only the source is matched.
GetConnectionsOutbound(call) ==
    [docs |-> call.docs,
     prog |-> <<EdgesStmt(connections_out, <<call.ids[1]>>)>>]

\* get_connections(identifier)
get_connections(call) ==
    [docs |-> call.docs,
     prog |-> <<EdgesStmt("search-edges.sql", <<call.ids[1], call.ids[1]>>)>>]

\* What the unit does when atomic invokes it, up to its first statement.
Unit(call) ==
    CASE call.op = "add_node" -> add_node(call)
      [] call.op = "add_nodes" -> add_nodes(call)
      [] call.op = "upsert_node" -> upsert_node(call)
      [] call.op = "upsert_nodes" -> upsert_nodes(call)
      [] call.op = "connect_nodes" -> connect_nodes(call)
      [] call.op = "connect_many_nodes" -> connect_many_nodes(call)
      [] call.op = "remove_node" -> remove_node(call)
      [] call.op = "remove_nodes" -> remove_nodes(call)
      [] call.op = "find_node" -> find_node_unit(call)
      [] call.op = "traverse" -> traverse(call)
      [] call.op = "get_connections" -> get_connections(call)
      [] call.op = "find_nodes" -> find_nodes(call)
      [] call.op = "get_connections_one_way" -> get_connections_one_way(call)

\* What the unit returns: find_node its lookup, traverse its path, every
\* writer None.
UnitValue(call, current, walked) ==
    CASE call.op = "find_node" -> PyDict(current)
      [] call.op = "traverse" -> PyList(walked)
      [] call.op \in {"get_connections", "get_connections_one_way"} -> PyRows(current)
      [] call.op = "find_nodes" -> PyDocs(current)
      [] OTHER -> PyNone

\* Mutant of upsert_write: the insert path inserts the document as given.
UpsertWriteAsGiven(current, identifier, data) ==
    IF Falsy(current)
    THEN [data |-> data, q |-> InsertNode(json_dumps(data))]
    ELSE LET updated_data == set_id(identifier, Merge(current, data)) IN
         [data |-> data, q |-> UpdateNode(json_dumps(updated_data), identifier)]

\* Mutant of upsert_write: the lookup is ignored and the node is inserted.
UpsertWriteInsertOnly(current, identifier, data) ==
    LET d == set_id(identifier, data) IN
    [data |-> d, q |-> InsertNode(json_dumps(d))]

\* The write of _upsert_node(cursor, identifier, data) after its lookup
\* returned current: [data: the caller's dict afterwards, q: the statement].
upsert_write(current, identifier, data) ==
    IF Falsy(current)
    THEN LET d == set_id(identifier, data) IN
         [data |-> d, q |-> InsertNode(json_dumps(d))]
    ELSE LET updated_data == set_id(identifier, Merge(current, data)) IN
         [data |-> data, q |-> UpdateNode(json_dumps(updated_data), identifier)]

\* Mutant of traverse_row: identifiers are appended without the membership
\* test.
TraverseRowNoDedup(row, target, with_bodies, walked) ==
    IF with_bodies
    THEN [path |-> Append(walked, row),
          stop |-> row[1] = target /\ row[2] = "()"]
    ELSE [path |-> Append(walked, row[1]), stop |-> row[1] = target]

\* Mutant of traverse_row: the identifiers-only loop has no break.
TraverseRowNoBreak(row, target, with_bodies, walked) ==
    IF with_bodies
    THEN [path |-> Append(walked, row),
          stop |-> row[1] = target /\ row[2] = "()"]
    ELSE IF \E k \in 1..Len(walked) : walked[k] = row[1]
         THEN [path |-> walked, stop |-> FALSE]
         ELSE [path |-> Append(walked, row[1]), stop |-> FALSE]

\* Mutant of traverse_row: with bodies, any row of the target stops the walk.
TraverseRowAnyMarker(row, target, with_bodies, walked) ==
    IF with_bodies
    THEN [path |-> Append(walked, row), stop |-> row[1] = target]
    ELSE IF \E k \in 1..Len(walked) : walked[k] = row[1]
         THEN [path |-> walked, stop |-> FALSE]
         ELSE [path |-> Append(walked, row[1]), stop |-> row[1] = target]

\* Mutant of traverse_row: with bodies, a row is appended twice.
TraverseRowAppendsTwice(row, target, with_bodies, walked) ==
    IF with_bodies
    THEN [path |-> Append(Append(walked, row), row),
          stop |-> row[1] = target /\ row[2] = "()"]
    ELSE IF \E k \in 1..Len(walked) : walked[k] = row[1]
         THEN [path |-> walked, stop |-> FALSE]
         ELSE [path |-> Append(walked, row[1]), stop |-> row[1] = target]

\* Mutant of traverse_row: a new identifier is put at the front of the path.
TraverseRowPrepends(row, target, with_bodies, walked) ==
    IF with_bodies
    THEN [path |-> Append(walked, row),
          stop |-> row[1] = target /\ row[2] = "()"]
    ELSE IF \E k \in 1..Len(walked) : walked[k] = row[1]
         THEN [path |-> walked, stop |-> FALSE]
         ELSE [path |-> <<row[1]>> \o walked, stop |-> row[1] = target]

\* One pass of the loop body of _traverse over a row: [path, stop].
traverse_row(row, target, with_bodies, walked) ==
    IF with_bodies
    THEN [path |-> Append(walked, row),
          stop |-> row[1] = target /\ row[2] = "()"]
    ELSE IF \E k \in 1..Len(walked) : walked[k] = row[1]
         THEN [path |-> walked, stop |-> FALSE]
         ELSE [path |-> Append(walked, row[1]), stop |-> row[1] = target]

\* ------------------------------------------------- the application layer
\* base.py keeps one class attribute, GraphDB._instance; visualizers.py
\* draws a path into a Digraph.  The state of both is one record.

\* The k-th GraphDB object constructed.
PyGraphDB(k) == [t |-> "GraphDB", v |-> k]

\* database.initialize(db_file, schema_file): atomic returns what _init
\* returns, and _init returns nothing.
db_initialize == PyNone
\* GraphDB.initialize(self, schema_file) returns what database.initialize
\* returns.
initialize(self) == db_initialize

\* GraphDB._instance is None, nothing drawn, no rendering under way.
NoApp ==
    [instance |-> PyNone, objects |-> 0, inits |-> 0, got |-> << >>,
     vpc |-> "idle", vpath |-> << >>, pi |-> 1, ids |-> << >>, at |-> 1,
     visited |-> << >>, edges |-> {}, nodes_drawn |-> EmptyBag,
     edges_drawn |-> EmptyBag]

\* GraphDB.get_instance(): when the class attribute is None an object is
\* constructed and what its initialize() returns is stored; the class
\* attribute is returned.
get_instance(a) ==
    LET b == IF a.instance = PyNone
             THEN [a EXCEPT !.objects = @ + 1, !.inits = @ + 1,
                            !.instance = initialize(PyGraphDB(a.objects + 1))]
             ELSE a
    IN [b EXCEPT !.got = Append(@, [by |-> "get_instance", v |-> b.instance,
                                    made |-> a.instance = PyNone])]

\* getDB(): the class attribute, or when it is None a new object from
\* init_db, which the class attribute does not keep.
getDB(a) ==
    IF a.instance = PyNone
    THEN [a EXCEPT !.objects = @ + 1, !.inits = @ + 1,
                   !.got = Append(@, [by |-> "getDB", made |-> TRUE,
                                      v |-> PyGraphDB(a.objects + 1)])]
    ELSE [a EXCEPT !.got = Append(@, [by |-> "getDB", made |-> FALSE,
                                      v |-> a.instance])]

\* The orders in which a cursor can yield the rows of a set.
Orders(S) ==
    {f \in [1..Cardinality(S) -> S] : \A j, k \in DOMAIN f : f[j] = f[k] => j = k}

\* db.atomic(db_file, connections(i)) with the default connections function:
\* the rows get_connections fetches from the committed store.
viz_connections(st, i) ==
    LET q == get_connections([op |-> "get_connections", docs |-> << >>,
                              ids |-> <<i>>, tgts |-> << >>, rep |-> FALSE,
                              given |-> << >>]).prog[1]
    IN FetchEdges(st, q.sql, q.params)

\* The first loop of graphviz_visualize for one path element i, whose
\* connections come as the rows es: i is appended, then each endpoint of each
\* row that ids does not hold yet.
collect_ids(ids, i, es) ==
    LET RECURSIVE walk(_, _)
        walk(acc, k) ==
            IF k > Len(es) THEN acc
            ELSE LET a1 == IF InSeq(es[k].source, acc) THEN acc
                           ELSE Append(acc, es[k].source)
                     a2 == IF InSeq(es[k].target, a1) THEN a1
                           ELSE Append(a1, es[k].target)
                 IN walk(a2, k + 1)
    IN walk(Append(ids, i), 1)

\* Mutant of render_id: an identifier is drawn also when it was visited.
RenderIdVisitedAgain(a, st, i) ==
    LET node == find_node(st, i)
        es == DOMAIN viz_connections(st, i)
    IN IF "id" \notin DOMAIN node
       THEN [a EXCEPT !.vpc = "error"]
       ELSE [a EXCEPT !.nodes_drawn = @ (+) SetToBag({node["id"]}),
                      !.edges_drawn = @ (+) SetToBag(es \ a.edges),
                      !.edges = @ \cup es,
                      !.visited = Append(@, i),
                      !.at = @ + 1]

\* The second loop of graphviz_visualize for one element i of ids: unless
\* visited, the node is looked up and drawn (_as_dot_node raises KeyError on
\* a body without "id"), each of its connections that `edges` does not hold
\* is drawn and appended to `edges`, and i is appended to `visited`.
render_id(a, st, i) ==
    IF InSeq(i, a.visited)
    THEN [a EXCEPT !.at = @ + 1]
    ELSE LET node == find_node(st, i)
             es == DOMAIN viz_connections(st, i)
         IN IF "id" \notin DOMAIN node
            THEN [a EXCEPT !.vpc = "error"]
            ELSE [a EXCEPT !.nodes_drawn = @ (+) SetToBag({node["id"]}),
                           !.edges_drawn = @ (+) SetToBag(es \ a.edges),
                           !.edges = @ \cup es,
                           !.visited = Append(@, i),
                           !.at = @ + 1]

\* ------------------------------------------------------------------ state

VARIABLES
    db,       \* the committed store of the database file
    pc,       \* per caller: where its call of atomic stands
    call,     \* per caller: the operation and the caller's argument objects
    conn,     \* per caller: atomic's local `connection` (none, open, closed)
    fk,       \* per caller: foreign keys are enforced on its connection
    tx,       \* per caller: its connection has an open write transaction
    work,     \* per caller: the store as its open transaction sees it
    prog,     \* per caller: the statements the unit has still to run
    cur,      \* per caller: the last lookup's result (current_data)
    rows,     \* per caller: the rows its neighbor query has still to yield
    path,     \* per caller: the path _traverse has built
    results,  \* per caller: atomic's local `results`
    ret,      \* per caller: what atomic returned
    err,      \* per caller: the error in flight or raised ("none" if none)
    open,     \* per caller: connections it opened that are not closed
    ran,      \* per caller: the writing statements its unit has executed
    snap,     \* per caller: the committed store when its call began
    again,    \* per caller: the call repeats its previous, successful call
    seen,     \* per caller: the rows its traversal has consumed so far
    app       \* the application layer: the GraphDB singleton and a rendering

vars == <<db, pc, call, conn, fk, tx, work, prog, cur, rows, path, results, ret,
          err, open, ran, snap, again, seen, app>>

NoCall == [op |-> "none", docs |-> << >>, ids |-> << >>, tgts |-> << >>,
           rep |-> FALSE, given |-> << >>]

\* No caller has called yet.
NoCalls ==
    /\ pc = [p \in Procs |-> "idle"]
    /\ call = [p \in Procs |-> NoCall]
    /\ conn = [p \in Procs |-> "none"]
    /\ fk = [p \in Procs |-> FALSE]
    /\ tx = [p \in Procs |-> FALSE]
    /\ work = [p \in Procs |-> EmptyStore]
    /\ prog = [p \in Procs |-> << >>]
    /\ cur = [p \in Procs |-> EmptyDoc]
    /\ rows = [p \in Procs |-> << >>]
    /\ path = [p \in Procs |-> << >>]
    /\ results = [p \in Procs |-> Unset]
    /\ ret = [p \in Procs |-> Unset]
    /\ err = [p \in Procs |-> "none"]
    /\ open = [p \in Procs |-> 0]
    /\ ran = [p \in Procs |-> << >>]
    /\ snap = [p \in Procs |-> EmptyStore]
    /\ again = [p \in Procs |-> FALSE]
    /\ seen = [p \in Procs |-> << >>]
    /\ app = NoApp

Init ==
    /\ db = EmptyStore
    /\ NoCalls

\* The store a statement of p's connection reads and writes.
View(p) == IF tx[p] THEN work[p] ELSE db
\* Another connection holds the write lock.
Locked(p) == \E q \in Procs \ {p} : tx[q]

\* ------------------------------------------------------------ the callers

Seqs(S, n) == UNION {[1..k -> S] : k \in 0..n}
\* Parallel lists of one length, as the callers of the bulk operations build.
Pairs(S, T, n) == UNION {[1..k -> S] \X [1..k -> T] : k \in 0..n}

\* docs are the caller's objects as they are now, given what they held when
\* the caller passed them.
MkCall(o, ds, is, ts, r) ==
    [op |-> o, docs |-> ds, ids |-> is, tgts |-> ts, rep |-> r, given |-> ds]

\* The caller invokes atomic(db_file, unit) with fresh locals.
Begin(p, c, second) ==
    /\ call' = [call EXCEPT ![p] = c]
    /\ pc' = [pc EXCEPT ![p] = "connect"]
    /\ snap' = [snap EXCEPT ![p] = db]
    /\ again' = [again EXCEPT ![p] = second]
    /\ UNCHANGED <<seen, app>>
    /\ UNCHANGED <<db, conn, fk, tx, work, prog, cur, rows, path, results, ret,
                   err, open, ran>>

\* The caller is between calls and has no call of its own to repeat.
Ready(p) == pc[p] = "idle" /\ call[p].op = "none"
\* Room for n more edge rows.
Room(n) == BagCardinality(db.edges) + n <= MaxEdges

CallAddNode(p) ==
    /\ Ready(p)
    /\ \E d \in Documents, i \in Ids \cup {None} :
          Begin(p, MkCall("add_node", <<d>>, <<i>>, << >>, FALSE), FALSE)

\* upsert_node, once or (rep) twice in a row with the same objects.
CallUpsertNode(p) ==
    /\ Ready(p)
    /\ \E d \in Documents, i \in Ids, r \in BOOLEAN :
          Begin(p, MkCall("upsert_node", <<d>>, <<i>>, << >>, r), FALSE)

CallBulkNodes(p) ==
    /\ Ready(p)
    /\ \E o \in {"add_nodes", "upsert_nodes"},
          a \in Pairs(BulkDocuments, Ids, MaxBatch) :
          Begin(p, MkCall(o, a[1], a[2], << >>, FALSE), FALSE)

CallConnect(p) ==
    /\ Ready(p)
    /\ Room(1)
    /\ \E s \in Ids, t \in Ids, pr \in Properties :
          Begin(p, MkCall("connect_nodes", <<pr>>, <<s>>, <<t>>, FALSE), FALSE)

CallConnectMany(p) ==
    /\ Ready(p)
    /\ \E a \in Pairs(Ids, {"1"}, MaxBatch) :
          /\ Room(Len(a[1]))
          /\ Begin(p, MkCall("connect_many_nodes",
                             [j \in 1..Len(a[1]) |-> EmptyDoc], a[1], a[2], FALSE),
                   FALSE)

CallRemove(p) ==
    /\ Ready(p)
    /\ \E i \in Ids :
          Begin(p, MkCall("remove_node", << >>, <<i>>, << >>, FALSE), FALSE)

CallRemoveMany(p) ==
    /\ Ready(p)
    /\ \E is \in Seqs(Ids, MaxBatch) :
          Begin(p, MkCall("remove_nodes", << >>, is, << >>, FALSE), FALSE)

CallFind(p) ==
    /\ Ready(p)
    /\ \E i \in Ids :
          Begin(p, MkCall("find_node", << >>, <<i>>, << >>, FALSE), FALSE)

\* traverse toward tgt (in tgts), with or without bodies (docs is not used;
\* ids holds the with_bodies flag's name).
Targets == {PyNone, PyInt("1")}
CallTraverse(p) ==
    /\ Ready(p)
    /\ \E t \in Targets, wb \in {"ids", "bodies"} :
          Begin(p, MkCall("traverse", << >>, <<wb>>, <<t>>, FALSE), FALSE)

CallConnections(p) ==
    /\ Ready(p)
    /\ \E i \in Ids :
          \/ Begin(p, MkCall("get_connections", << >>, <<i>>, << >>, FALSE), FALSE)
          \/ \E d \in {"connections_in", "connections_out"} :
                Begin(p, MkCall("get_connections_one_way", << >>, <<i>>, <<d>>, FALSE),
                      FALSE)

\* find_nodes with one clause and one bound value.
CallSearch(p) ==
    /\ Ready(p)
    /\ Begin(p, MkCall("find_nodes", <<"1">>,
                       <<generate_clause("name", None, None, FALSE, FALSE)>>,
                       <<None, "False">>, FALSE), FALSE)

\* The bulk operations with parallel lists of which one is an element short.
CallBulkUneven(p) ==
    /\ Ready(p)
    /\ \E n \in 1..MaxBatch, short \in {"docs", "ids", "tgts"} :
          LET len(l) == IF l = short THEN n - 1 ELSE n IN
          \/ /\ short # "tgts"
             /\ \E o \in {"add_nodes", "upsert_nodes"},
                   ds \in [1..len("docs") -> BulkDocuments],
                   is \in [1..len("ids") -> Ids] :
                   Begin(p, MkCall(o, ds, is, << >>, FALSE), FALSE)
          \/ /\ Room(n - 1)
             /\ \E is \in [1..len("ids") -> Ids] :
                   Begin(p, MkCall("connect_many_nodes",
                                   [j \in 1..len("docs") |-> EmptyDoc], is,
                                   [j \in 1..len("tgts") |-> "1"], FALSE), FALSE)

\* The caller repeats the call that has just returned, with the same objects.
CallAgain(p) ==
    /\ pc[p] = "idle"
    /\ call[p].op # "none"
    /\ Begin(p, [call[p] EXCEPT !.rep = FALSE, !.given = call[p].docs], TRUE)

\* ----------------------------------------------------------------- atomic

\* connection = sqlite3.connect(db_file)
Connect(p) ==
    /\ pc[p] = "connect"
    /\ conn' = [conn EXCEPT ![p] = "open"]
    /\ open' = [open EXCEPT ![p] = @ + 1]
    /\ pc' = [pc EXCEPT ![p] = "pragma"]
    /\ UNCHANGED <<db, call, fk, tx, work, prog, cur, rows, path, results, ret,
                   err, ran, snap, again, seen, app>>

\* sqlite3.connect raises: `connection` stays None.
ConnectFail(p) ==
    /\ pc[p] = "connect"
    /\ err' = [err EXCEPT ![p] = "OperationalError"]
    /\ pc' = [pc EXCEPT ![p] = "close"]
    /\ UNCHANGED <<db, call, conn, fk, tx, work, prog, cur, rows, path, results,
                   ret, open, ran, snap, again, seen, app>>

\* Mutant of PragmaForeignKeys: the pragma is not run.
PragmaSkipped(p) == fk' = fk

\* cursor.execute("PRAGMA foreign_keys = TRUE;")
PragmaForeignKeys(p) == fk' = [fk EXCEPT ![p] = TRUE]

\* The pragma, then cursor_exec_fn(cursor) is entered.
Pragma(p) ==
    /\ pc[p] = "pragma"
    /\ PragmaForeignKeys(p)
    /\ LET u == Unit(call[p]) IN
          /\ call' = [call EXCEPT ![p].docs = u.docs]
          /\ prog' = [prog EXCEPT ![p] = u.prog]
    /\ pc' = [pc EXCEPT ![p] = "unit"]
    /\ UNCHANGED <<db, conn, tx, work, cur, rows, path, results, ret, err, open,
                   ran, snap, again, seen, app>>

\* Mutant of AfterStatement: the commit runs although the unit raised (as if
\* it stood in the finally block).
AfterStatementCommits(p, ok) ==
    IF ok
    THEN /\ prog' = [prog EXCEPT ![p] = Tail(@)]
         /\ UNCHANGED <<pc, err>>
    ELSE /\ err' = [err EXCEPT ![p] = "IntegrityError"]
         /\ pc' = [pc EXCEPT ![p] = "commit"]
         /\ prog' = [prog EXCEPT ![p] = << >>]

\* Mutant of AfterStatement: a failing statement is skipped and the unit
\* goes on with the next one.
AfterStatementSkips(p, ok) ==
    /\ prog' = [prog EXCEPT ![p] = Tail(@)]
    /\ UNCHANGED <<pc, err>>

\* Where a statement's outcome leaves the unit: on to the next statement, or
\* the error leaves the unit and the try block.
AfterStatement(p, ok) ==
    IF ok
    THEN /\ prog' = [prog EXCEPT ![p] = Tail(@)]
         /\ UNCHANGED <<pc, err>>
    ELSE /\ err' = [err EXCEPT ![p] = "IntegrityError"]
         /\ pc' = [pc EXCEPT ![p] = "close"]
         /\ UNCHANGED prog

\* cursor.execute of a writing statement q: the implicit BEGIN takes the
\* write lock, then q applies to the transaction's view or raises.
Write(p, q) ==
    LET r == ExecuteSql(View(p), fk[p], q) IN
    /\ ~Locked(p)
    /\ tx' = [tx EXCEPT ![p] = TRUE]
    /\ work' = [work EXCEPT ![p] = r.store]
    /\ ran' = [ran EXCEPT ![p] = IF r.ok THEN Append(@, q) ELSE @]
    /\ AfterStatement(p, r.ok)
    /\ UNCHANGED <<db, conn, fk, cur, rows, path, results, ret, open, snap, again, seen, app>>

Running(p, kind) ==
    /\ pc[p] = "unit"
    /\ prog[p] # << >>
    /\ Head(prog[p]).k = kind

\* One cursor.execute (or one row of an executemany) of a writing statement.
ExecSql(p) ==
    /\ Running(p, "sql")
    /\ Write(p, Head(prog[p]).q)
    /\ UNCHANGED call

\* current_data = find_node(identifier)(cursor)
ExecFind(p) ==
    /\ Running(p, "find")
    /\ cur' = [cur EXCEPT ![p] = find_node(View(p), Head(prog[p]).id)]
    /\ prog' = [prog EXCEPT ![p] = Tail(@)]
    /\ UNCHANGED <<db, pc, call, conn, fk, tx, work, rows, path, results, ret,
                   err, open, ran, snap, again, seen, app>>

\* _find_nodes: cursor.execute(query, bindings).fetchall(), parsed by
\* _parse_search_results; the engine selects some of the node rows.
ExecSearch(p) ==
    /\ Running(p, "search")
    /\ \E S \in SUBSET View(p).nodes :
          cur' = [cur EXCEPT ![p] = {json_loads(r.body) : r \in S}]
    /\ prog' = [prog EXCEPT ![p] = Tail(@)]
    /\ UNCHANGED <<db, pc, call, conn, fk, tx, work, rows, path, results, ret,
                   err, open, ran, snap, again, seen, app>>

\* _get_connections: cursor.execute(sql, params).fetchall()
ExecEdges(p) ==
    /\ Running(p, "edges")
    /\ cur' = [cur EXCEPT ![p] =
                 FetchEdges(View(p), Head(prog[p]).sql, Head(prog[p]).params)]
    /\ prog' = [prog EXCEPT ![p] = Tail(@)]
    /\ UNCHANGED <<db, pc, call, conn, fk, tx, work, rows, path, results, ret,
                   err, open, ran, snap, again, seen, app>>

\* The insert or update of _upsert_node.
ExecUpsert(p) ==
    /\ Running(p, "upsert")
    /\ LET st == Head(prog[p])
           w == upsert_write(cur[p], st.id, call[p].docs[st.j])
       IN /\ Write(p, w.q)
          /\ call' = [call EXCEPT ![p].docs[st.j] = w.data]

\* The rows a neighbor query may yield, without and with bodies.  A row's
\* identifier is the id text of a node; "null" is the id of a node added with
\* the identifier "null".
RowIds == {"1", "null"}
IdRows == {<<i>> : i \in RowIds}
BodyRows == {<<"1", "()", "{}">>, <<"1", "->", "{}">>, <<"null", "()", "{}">>}

\* The identifiers the neighbor query reaches from S in st, over edges in
\* both directions.
RECURSIVE Reach(_, _)
Reach(st, S) ==
    LET N == S \cup {e.target : e \in {x \in DOMAIN st.edges : x.source \in S}}
               \cup {e.source : e \in {x \in DOMAIN st.edges : x.target \in S}}
    IN IF N = S THEN S ELSE Reach(st, N)

\* The id rows of the combined neighbor query from src in st: src first,
\* then every other reached node once, in an order the engine chooses.
GraphStreams(st, src) ==
    LET R == Reach(st, {src})
        n == Cardinality(R)
    IN {sq \in [1..n -> {<<i>> : i \in R}] :
           /\ sq[1] = <<src>>
           /\ \A j, k \in 1..n : sq[j] = sq[k] => j = k}

\* The streams a traversal may be fed: any short stream of rows, or, for a
\* call that names its source (ids = <<"graph", src>>), the rows of the
\* graph in the store.
NeighborStreams(c, st) ==
    CASE c.ids[1] = "bodies" -> Seqs(BodyRows, MaxRows)
      [] c.ids[1] = "ids" -> Seqs(IdRows, MaxRows)
      [] c.ids[1] = "graph" -> GraphStreams(st, c.ids[2])

\* cursor.execute(neighbors_fn(with_bodies=with_bodies), (src,)): the engine
\* will yield some stream of rows; path = [].
ExecTraverse(p) ==
    /\ Running(p, "traverse")
    /\ \E rs \in NeighborStreams(call[p], View(p)) :
          rows' = [rows EXCEPT ![p] = rs]
    /\ path' = [path EXCEPT ![p] = << >>]
    /\ prog' = [prog EXCEPT ![p] = <<LoopStmt>>]
    /\ UNCHANGED <<db, pc, call, conn, fk, tx, work, cur, results, ret, err, open,
                   ran, snap, again, seen, app>>

\* The for loop of _traverse takes the next row; a break leaves the loop with
\* rows unread.
TraverseRow(p) ==
    /\ Running(p, "loop")
    /\ rows[p] # << >>
    /\ LET step == traverse_row(Head(rows[p]), json_dumps_id(call[p].tgts[1]),
                                call[p].ids[1] = "bodies", path[p])
       IN /\ path' = [path EXCEPT ![p] = step.path]
          /\ prog' = [prog EXCEPT ![p] = IF step.stop THEN << >> ELSE @]
    /\ rows' = [rows EXCEPT ![p] = Tail(@)]
    /\ seen' = [seen EXCEPT ![p] = Append(@, Head(rows[p]))]
    /\ UNCHANGED <<db, pc, call, conn, fk, tx, work, cur, results, ret, err, open,
                   ran, snap, again, app>>

\* The neighbor query is exhausted: the for loop ends.
TraverseEnd(p) ==
    /\ Running(p, "loop")
    /\ rows[p] = << >>
    /\ prog' = [prog EXCEPT ![p] = << >>]
    /\ UNCHANGED <<db, pc, call, conn, fk, tx, work, cur, rows, path, results, ret,
                   err, open, ran, snap, again, seen, app>>

\* The implicit BEGIN of a writing statement times out on the write lock of
\* another connection: OperationalError (database is locked).
Busy(p) ==
    /\ pc[p] = "unit"
    /\ prog[p] # << >>
    /\ Head(prog[p]).k \in {"sql", "upsert"}
    /\ Locked(p)
    /\ err' = [err EXCEPT ![p] = "OperationalError"]
    /\ pc' = [pc EXCEPT ![p] = "close"]
    /\ UNCHANGED <<db, call, conn, fk, tx, work, prog, cur, rows, path, results,
                   ret, open, ran, snap, again, seen, app>>

\* results = cursor_exec_fn(cursor): the unit returns.
UnitReturn(p) ==
    /\ pc[p] = "unit"
    /\ prog[p] = << >>
    /\ results' = [results EXCEPT ![p] = UnitValue(call[p], cur[p], path[p])]
    /\ pc' = [pc EXCEPT ![p] = "commit"]
    /\ UNCHANGED <<db, call, conn, fk, tx, work, prog, cur, rows, path, ret, err,
                   open, ran, snap, again, seen, app>>

\* Mutant of Committed: atomic does not commit.
CommittedNothing(p) == db

\* What connection.commit() leaves as the committed store.
Committed(p) == IF tx[p] THEN work[p] ELSE db

\* connection.commit()
Commit(p) ==
    /\ pc[p] = "commit"
    /\ db' = Committed(p)
    /\ tx' = [tx EXCEPT ![p] = FALSE]
    /\ work' = [work EXCEPT ![p] = EmptyStore]
    /\ pc' = [pc EXCEPT ![p] = "close"]
    /\ UNCHANGED <<call, conn, fk, prog, cur, rows, path, results, ret, err, open,
                   ran, snap, again, seen, app>>

\* connection.commit() raises (engine I/O error, lock timeout).
CommitFail(p) ==
    /\ pc[p] = "commit"
    /\ tx[p]
    /\ err' = [err EXCEPT ![p] = "OperationalError"]
    /\ pc' = [pc EXCEPT ![p] = "close"]
    /\ UNCHANGED <<db, call, conn, fk, tx, work, prog, cur, rows, path, results,
                   ret, open, ran, snap, again, seen, app>>

\* Mutant of CloseIfOpen: the close is not in a finally block, an error
\* skips it.
CloseOnSuccess(p) ==
    /\ conn' = [conn EXCEPT ![p] = IF @ = "open" /\ err[p] = "none" THEN "closed" ELSE @]
    /\ open' = [open EXCEPT ![p] = IF conn[p] = "open" /\ err[p] = "none" THEN @ - 1 ELSE @]

\* finally: if connection: connection.close()
CloseIfOpen(p) ==
    /\ conn' = [conn EXCEPT ![p] = IF @ = "open" THEN "closed" ELSE @]
    /\ open' = [open EXCEPT ![p] = IF conn[p] = "open" THEN @ - 1 ELSE @]

\* Mutant of Returned: atomic drops the unit's value.
ReturnedNone(p) == IF err[p] = "none" THEN PyNone ELSE Unset

\* What atomic hands back once the finally block has run.
Returned(p) == IF err[p] = "none" THEN results[p] ELSE Unset

\* The finally block (closing rolls an open transaction back), then
\* `return results` or the error propagates; the locals are gone, and the
\* caller keeps its argument objects only to call again.
Finally(p) ==
    /\ pc[p] = "close"
    /\ CloseIfOpen(p)
    /\ tx' = [tx EXCEPT ![p] = FALSE]
    /\ work' = [work EXCEPT ![p] = EmptyStore]
    /\ ret' = [ret EXCEPT ![p] = Returned(p)]
    /\ pc' = [pc EXCEPT ![p] = "done"]
    /\ call' = [call EXCEPT ![p] = IF @.rep /\ err[p] = "none" THEN @ ELSE NoCall]
    /\ fk' = [fk EXCEPT ![p] = FALSE]
    /\ prog' = [prog EXCEPT ![p] = << >>]
    /\ cur' = [cur EXCEPT ![p] = EmptyDoc]
    /\ rows' = [rows EXCEPT ![p] = << >>]
    /\ path' = [path EXCEPT ![p] = << >>]
    /\ results' = [results EXCEPT ![p] = Unset]
    /\ ran' = [ran EXCEPT ![p] = << >>]
    /\ snap' = [snap EXCEPT ![p] = EmptyStore]
    /\ again' = [again EXCEPT ![p] = FALSE]
    /\ seen' = [seen EXCEPT ![p] = << >>]
    /\ UNCHANGED app
    /\ UNCHANGED <<db, err>>

\* The caller has taken atomic's result (or caught its error) and goes on.
Resume(p) ==
    /\ pc[p] = "done"
    /\ pc' = [pc EXCEPT ![p] = "idle"]
    /\ ret' = [ret EXCEPT ![p] = Unset]
    /\ err' = [err EXCEPT ![p] = "none"]
    /\ conn' = [conn EXCEPT ![p] = "none"]
    /\ UNCHANGED <<db, call, fk, tx, work, prog, cur, rows, path, results, open,
                   ran, snap, again, seen, app>>

\* --------------------------------------------------------- specification

Caller(p) ==
    \/ CallAddNode(p)
    \/ CallUpsertNode(p)
    \/ CallBulkNodes(p)
    \/ CallConnect(p)
    \/ CallConnectMany(p)
    \/ CallRemove(p)
    \/ CallRemoveMany(p)
    \/ CallFind(p)
    \/ CallTraverse(p)
    \/ CallConnections(p)
    \/ CallSearch(p)
    \/ CallBulkUneven(p)
    \/ CallAgain(p)
    \/ Resume(p)

Atomic(p) ==
    \/ Connect(p)
    \/ ConnectFail(p)
    \/ Pragma(p)
    \/ ExecSql(p)
    \/ ExecFind(p)
    \/ ExecSearch(p)
    \/ ExecUpsert(p)
    \/ ExecEdges(p)
    \/ ExecTraverse(p)
    \/ TraverseRow(p)
    \/ TraverseEnd(p)
    \/ UnitReturn(p)
    \/ Commit(p)
    \/ CommitFail(p)
    \/ Finally(p)

\* One caller at a time: each public operation runs to its end alone.
Next == Caller("c1") \/ Atomic("c1")

Spec == Init /\ [][Next]_vars

\* ------------------------------------------------- concurrent callers

\* Two callers, each upserting once into node "1", which exists; the first
\* writes key "a", the second key "b".
ConcDocuments(p) == IF p = "c1" THEN {[a |-> v] : v \in Vals}
                               ELSE {[b |-> v] : v \in Vals}

InitConc ==
    /\ NoCalls
    /\ db = [nodes |-> {[id |-> "1", body |-> json_dumps([id |-> "1"])]},
             edges |-> EmptyBag]

CallUpsertConc(p) ==
    /\ Ready(p)
    /\ \E d \in ConcDocuments(p) :
          Begin(p, MkCall("upsert_node", <<d>>, <<"1">>, << >>, FALSE), FALSE)

AtomicConc(p) ==
    \/ CallUpsertConc(p)
    \/ Connect(p)
    \/ ConnectFail(p)
    \/ Pragma(p)
    \/ ExecFind(p)
    \/ ExecUpsert(p)
    \/ Busy(p)
    \/ UnitReturn(p)
    \/ Commit(p)
    \/ CommitFail(p)
    \/ Finally(p)

NextConc == \E p \in Procs : AtomicConc(p)

SpecConc == InitConc /\ [][NextConc]_vars

\* ------------------------------------------------------------ searches

\* The clause fragments callers build with _generate_clause, and the lists
\* of them and of bound values they search with.
Clauses ==
    {generate_clause("name", None, None, FALSE, FALSE),
     generate_clause("name", "LIKE", "AND", TRUE, TRUE),
     generate_clause(None, None, "OR", TRUE, FALSE)}
ClauseLists == Seqs(Clauses, MaxClauses)
BindingLists == Seqs(Vals, MaxBindings)

\* Two nodes to search among, as add_node leaves them.
InitSearch ==
    /\ NoCalls
    /\ db = [nodes |-> {[id |-> "1", body |-> json_dumps([id |-> "1", a |-> "1"])],
                        [id |-> "2", body |-> json_dumps([id |-> "2"])]},
             edges |-> EmptyBag]

CallFindNodes(p) ==
    /\ Ready(p)
    /\ \E wc \in ClauseLists, b \in BindingLists,
          key \in {None, "name"}, tree \in {"True", "False"} :
          Begin(p, MkCall("find_nodes", b, wc, <<key, tree>>, FALSE), FALSE)

NextSearch ==
    \/ CallFindNodes("c1")
    \/ Connect("c1")
    \/ ConnectFail("c1")
    \/ Pragma("c1")
    \/ ExecSearch("c1")
    \/ UnitReturn("c1")
    \/ Commit("c1")
    \/ Finally("c1")
    \/ Resume("c1")

SpecSearch == InitSearch /\ [][NextSearch]_vars

\* ------------------------------------------------- the application layer

\* The application calls between calls of atomic; no call is in progress and
\* the store stays as it is (initialize runs schema.sql on a database that
\* has its tables).
CallsRest ==
    UNCHANGED <<db, pc, call, conn, fk, tx, work, prog, cur, rows, path, results,
                ret, err, open, ran, snap, again, seen>>

\* The stores the application draws: nodes as add_node leaves them, edges
\* with empty properties between them, an edge at most twice.
AppEdges(N) ==
    {[source |-> x, target |-> y, properties |-> json_dumps(EmptyDoc)] :
        x \in N, y \in N}
AppBags(N) ==
    {b \in UNION {[E -> 1..2] : E \in SUBSET AppEdges(N)} :
        BagCardinality(b) <= MaxEdges}
AppStores ==
    UNION {{[nodes |-> {[id |-> i, body |-> json_dumps([id |-> i])] : i \in N},
             edges |-> B] : B \in AppBags(N)} : N \in SUBSET Ids}

InitApp ==
    /\ NoCalls
    /\ db \in AppStores

GetInstance ==
    /\ app.vpc = "idle"
    /\ Len(app.got) < MaxGets
    /\ app' = get_instance(app)
    /\ CallsRest

GetDB ==
    /\ app.vpc = "idle"
    /\ Len(app.got) < MaxGets
    /\ app' = getDB(app)
    /\ CallsRest

\* graphviz_visualize(db_file, dot_file, path) is called: ids = [].
VizStart ==
    /\ app.vpc = "idle"
    /\ \E pth \in Seqs(Ids, MaxPath) :
          app' = [app EXCEPT !.vpc = "collect", !.vpath = pth]
    /\ CallsRest

\* One pass of the first loop: the next path element and the endpoints of
\* its connections; after the last, dot = Digraph(), visited = edges = [].
VizCollect ==
    /\ app.vpc = "collect"
    /\ IF app.pi > Len(app.vpath)
       THEN app' = [app EXCEPT !.vpc = "render"]
       ELSE \E es \in Orders(DOMAIN viz_connections(db, app.vpath[app.pi])) :
               app' = [app EXCEPT !.ids = collect_ids(@, app.vpath[app.pi], es),
                                  !.pi = @ + 1]
    /\ CallsRest

\* One pass of the second loop.
VizRender ==
    /\ app.vpc = "render"
    /\ app.at <= Len(app.ids)
    /\ app' = render_id(app, db, app.ids[app.at])
    /\ CallsRest

\* dot.render(dot_file, format), or the KeyError leaves the function; the
\* locals are gone.
VizReturn ==
    /\ \/ app.vpc = "render" /\ app.at > Len(app.ids)
       \/ app.vpc = "error"
    /\ app' = [NoApp EXCEPT !.instance = app.instance, !.objects = app.objects,
                            !.inits = app.inits, !.got = app.got]
    /\ CallsRest

NextApp ==
    \/ GetInstance
    \/ GetDB
    \/ VizStart
    \/ VizCollect
    \/ VizRender
    \/ VizReturn

SpecApp == InitApp /\ [][NextApp]_vars

\* ------------------------------------------- a traversal run to its end

\* A call of traverse is one thread of control: once atomic is entered it
\* runs on until atomic returns.
RunsOn(p) ==
    \/ Connect(p)
    \/ ConnectFail(p)
    \/ Pragma(p)
    \/ ExecTraverse(p)
    \/ TraverseRow(p)
    \/ TraverseEnd(p)
    \/ UnitReturn(p)
    \/ Commit(p)
    \/ Finally(p)

NextWalk ==
    \/ CallTraverse("c1")
    \/ Connect("c1")
    \/ ConnectFail("c1")
    \/ Pragma("c1")
    \/ ExecTraverse("c1")
    \/ TraverseRow("c1")
    \/ TraverseEnd("c1")
    \/ UnitReturn("c1")
    \/ Commit("c1")
    \/ Finally("c1")
    \/ Resume("c1")

SpecWalk == InitSearch /\ [][NextWalk]_vars /\ WF_vars(RunsOn("c1"))

\* ------------------------------------------------- the fixture graph

\* nodes() and edges() of base.py: five nodes, six edges (the documents are
\* cut down to their id, which Node.save forces; ids are stored as text).
FixtureNodes == {"1", "2", "3", "4", "5"}
FixtureEdges == {<<"1", "4">>, <<"2", "1">>, <<"2", "3">>, <<"3", "1">>,
                 <<"4", "1">>, <<"5", "1">>}
FixtureStore ==
    [nodes |-> {[id |-> i, body |-> json_dumps([id |-> i])] : i \in FixtureNodes},
     edges |-> SetToBag({[source |-> e[1], target |-> e[2],
                          properties |-> json_dumps(EmptyDoc)] : e \in FixtureEdges})]

InitFixture ==
    /\ NoCalls
    /\ db = FixtureStore

\* traverse(db_file, 2, tgt) over find_neighbors, tgt the str "3" or the int 3.
FixtureTargets == {PyStr("3"), PyInt("3")}
CallTraverseFixture(p) ==
    /\ Ready(p)
    /\ \E t \in FixtureTargets :
          Begin(p, MkCall("traverse", << >>, <<"graph", "2">>, <<t>>, FALSE), FALSE)

NextFixture ==
    \/ CallTraverseFixture("c1")
    \/ Connect("c1")
    \/ ConnectFail("c1")
    \/ Pragma("c1")
    \/ ExecTraverse("c1")
    \/ TraverseRow("c1")
    \/ TraverseEnd("c1")
    \/ UnitReturn("c1")
    \/ Commit("c1")
    \/ Finally("c1")
    \/ Resume("c1")

SpecFixture == InitFixture /\ [][NextFixture]_vars

\* ----------------------------------------------------------------- claims

\* The call of p has reached the end of atomic's try block.
AtClose(p, o) == pc[p] = "close" /\ call[p].op = o
Succeeded(p, o) == AtClose(p, o) /\ err[p] = "none"
StoredDoc(st, identifier) == find_node(st, identifier)

\* C1: when the unit of work returns normally and atomic returns, the
\* committed store is the store of the call's begin with every statement the
\* unit executed applied, and atomic returns exactly the unit's value.
C1_CommitsAndReturnsResult ==
    [][\A p \in Procs :
         (pc[p] = "close" /\ err[p] = "none" /\ pc'[p] = "done") =>
            /\ db' = Replay(snap[p], fk[p], ran[p]).store
            /\ results[p] = UnitValue(call[p], cur[p], path[p])
            /\ ret'[p] = results[p]]_vars

\* A unit of two statements has returned and its statements are committed.
C1_Witness ==
    \E p \in Procs :
        /\ pc[p] = "close" /\ err[p] = "none"
        /\ Len(ran[p]) = 2
        /\ db # snap[p]

\* C2: when the unit of work raises, atomic ends with the committed store as
\* it was when the call began (nothing the unit executed is committed, no
\* transaction is left open) and the unit's error reaches the caller.
C2_UnitErrorCommitsNothing ==
    [][\A p \in Procs :
         (pc[p] = "close" /\ err[p] = "IntegrityError" /\ pc'[p] = "done") =>
            /\ db = snap[p]
            /\ db' = snap[p]
            /\ ~tx'[p]
            /\ err'[p] = "IntegrityError"
            /\ ret'[p] = Unset]_vars

\* The unit raised after a statement of its own had succeeded.
C2_Witness ==
    \E p \in Procs :
        /\ pc[p] = "close" /\ err[p] = "IntegrityError"
        /\ ran[p] # << >>
        /\ tx[p] /\ work[p] # db

\* C3: once a call of atomic has returned or raised, no connection it opened
\* is still open, whichever way it ended.
C3_ConnectionsClosed ==
    \A p \in Procs : pc[p] \in {"idle", "done"} => open[p] = 0 /\ conn[p] # "open"

\* A call whose commit raised has ended with its connection closed.
C3_Witness ==
    \E p \in Procs :
        /\ pc[p] = "done" /\ err[p] = "OperationalError"
        /\ conn[p] = "closed"

\* C4: in the committed store every edge's source and target is the id of a
\* node.
C4_ReferentialIntegrity ==
    \A e \in BagToSet(db.edges) : {e.source, e.target} \subseteq NodeIds(db)

\* A remove_node has deleted edges of its node and is committed.
C4_Witness ==
    \E p \in Procs :
        /\ Succeeded(p, "remove_node")
        /\ db.edges # snap[p].edges
        /\ db.edges # EmptyBag

\* C5: connect_nodes with a source or target that is not the id of a node
\* ends in an error and leaves the edges as they were.
C5_ConnectToMissingNodeFails ==
    \A p \in Procs :
        (/\ AtClose(p, "connect_nodes")
         /\ ~({call[p].ids[1], call[p].tgts[1]} \subseteq NodeIds(snap[p])))
        => /\ err[p] # "none"
           /\ db.edges = snap[p].edges

\* connect_nodes from an existing node to a missing one was refused.
C5_Witness ==
    \E p \in Procs :
        /\ AtClose(p, "connect_nodes")
        /\ err[p] = "IntegrityError"
        /\ call[p].ids[1] \in NodeIds(snap[p])
        /\ call[p].tgts[1] \notin NodeIds(snap[p])

\* C6: upsert_node on an existing node stores the shallow merge: each key of
\* the new document (but "id") has the new value, each key only in the
\* current document keeps its value, and no other key appears.
C6_UpsertMerges ==
    \A p \in Procs :
        (Succeeded(p, "upsert_node") /\ call[p].ids[1] \in NodeIds(snap[p])) =>
            LET old == StoredDoc(snap[p], call[p].ids[1])
                new == call[p].docs[1]
                now == StoredDoc(db, call[p].ids[1])
            IN /\ DOMAIN now = DOMAIN old \cup DOMAIN new \cup {"id"}
               /\ \A k \in DOMAIN new \ {"id"} : now[k] = new[k]
               /\ \A k \in DOMAIN old \ DOMAIN new : now[k] = old[k]

\* An upsert has overwritten "a" of an existing node, with a document whose
\* "id" is not the identifier.
C6_Witness ==
    \E p \in Procs :
        /\ Succeeded(p, "upsert_node")
        /\ call[p].ids[1] \in NodeIds(snap[p])
        /\ DOMAIN call[p].docs[1] = {"id", "a"}
        /\ call[p].docs[1]["id"] # call[p].ids[1]
        /\ "a" \in DOMAIN StoredDoc(snap[p], call[p].ids[1])
        /\ StoredDoc(snap[p], call[p].ids[1])["a"] # call[p].docs[1]["a"]

\* C7: upsert_node for an identifier with no node leaves the store as
\* add_node of the same document and identifier does: one more node, whose
\* document is the given one with "id" set to the identifier.
C7_UpsertAbsentIsInsert ==
    \A p \in Procs :
        (Succeeded(p, "upsert_node") /\ call[p].ids[1] \notin NodeIds(snap[p])) =>
            LET added == Replay(snap[p], fk[p],
                                <<add_node(call[p]).prog[1].q>>)
                doc == set_id(call[p].ids[1], call[p].docs[1])
            IN /\ added.ok
               /\ db = added.store
               /\ db.nodes = snap[p].nodes
                               \cup {[id |-> call[p].ids[1], body |-> json_dumps(doc)]}
               /\ db.edges = snap[p].edges

\* An upsert has created a node from a document with another "id".
C7_Witness ==
    \E p \in Procs :
        /\ Succeeded(p, "upsert_node")
        /\ call[p].ids[1] \notin NodeIds(snap[p])
        /\ call[p].ids[1] = "1"
        /\ "a" \in DOMAIN call[p].docs[1]
        /\ db.nodes # snap[p].nodes

\* C8: every stored node document carries its row's id as "id".
C8_BodyIdIsId ==
    \A r \in db.nodes : json_extract_id(r.body) = r.id

\* add_node without an identifier has stored a node.
C8_Witness ==
    \E p \in Procs :
        /\ Succeeded(p, "add_node")
        /\ call[p].ids[1] = None
        /\ db.nodes # snap[p].nodes

\* C9: upsert_node run a second time with the same identifier and document
\* does not fail in the unit and leaves the store as the first run left it.
C9_UpsertIdempotent ==
    \A p \in Procs :
        (AtClose(p, "upsert_node") /\ again[p]) =>
            /\ err[p] # "IntegrityError"
            /\ err[p] = "none" => db = snap[p]

\* The second of two equal upserts, of a document with a key "a", is done.
C9_Witness ==
    \E p \in Procs :
        /\ Succeeded(p, "upsert_node") /\ again[p]
        /\ ran[p] # << >>
        /\ "a" \in DOMAIN call[p].docs[1]

\* C10: when both concurrent upserts of node "1" (keys "a" and "b") have
\* succeeded, the stored document has both keys.
C10_NoLostUpdate ==
    (\A p \in Procs : pc[p] = "done" /\ err[p] = "none") =>
        {"a", "b"} \subseteq DOMAIN StoredDoc(db, "1")

\* C11: remove_node(A) is not refused by the foreign keys; once it has
\* succeeded no edge has A as source or target, node A is absent and every
\* other node row is as it was.
C11_RemoveCascades ==
    \A p \in Procs :
        AtClose(p, "remove_node") =>
            LET A == call[p].ids[1] IN
            /\ err[p] # "IntegrityError"
            /\ err[p] = "none" =>
                 /\ \A e \in BagToSet(db.edges) : e.source # A /\ e.target # A
                 /\ A \notin NodeIds(db)
                 /\ db.nodes = {r \in snap[p].nodes : r.id # A}

\* A node with an edge to another node has been removed; the other node is
\* still there.
C11_Witness ==
    \E p \in Procs :
        /\ Succeeded(p, "remove_node")
        /\ call[p].ids[1] \in NodeIds(snap[p])
        /\ \E e \in BagToSet(snap[p].edges) :
              /\ e.source = call[p].ids[1]
              /\ e.target # call[p].ids[1]
              /\ e.target \in NodeIds(db)

\* The writing statements of a bulk unit whose statements do not depend on
\* a lookup.
BulkOps == {"add_nodes", "upsert_nodes", "connect_many_nodes", "remove_nodes"}
BatchStatements(c) ==
    IF c.op = "upsert_nodes" THEN << >>
    ELSE [j \in 1..Len(Unit(c).prog) |-> Unit(c).prog[j].q]

\* C12: when a bulk operation ends in an error, or the statement of one of
\* its elements fails on the store the call began with, the committed store
\* is as it was when the call began.
C12_BulkAllOrNothing ==
    \A p \in Procs :
        (/\ pc[p] = "close"
         /\ call[p].op \in BulkOps
         /\ \/ err[p] # "none"
            \/ ~Replay(snap[p], TRUE, BatchStatements(call[p])).ok)
        => db = snap[p]

\* The second element of add_nodes failed after the first was inserted in
\* the transaction.
C12_Witness ==
    \E p \in Procs :
        /\ AtClose(p, "add_nodes")
        /\ err[p] = "IntegrityError"
        /\ Len(ran[p]) = 1
        /\ tx[p] /\ work[p] # snap[p]

\* C13: find_node returns {} and raises nothing when no node has the
\* identifier, and the stored document of the node when one has.
C13_FindNode ==
    \A p \in Procs :
        AtClose(p, "find_node") =>
            LET i == call[p].ids[1]
                hit == {r \in snap[p].nodes : r.id = i}
            IN /\ err[p] # "IntegrityError"
               /\ err[p] = "none" =>
                    /\ results[p].t = "dict"
                    /\ hit = {} => results[p].v = EmptyDoc
                    /\ \A r \in hit : results[p].v = json_loads(r.body)

\* A lookup of an identifier without a node, in a store that has a node,
\* has returned {}.
C13_Witness ==
    \E p \in Procs :
        /\ Succeeded(p, "find_node")
        /\ snap[p].nodes # {}
        /\ call[p].ids[1] \notin NodeIds(snap[p])
        /\ results[p] = PyDict(EmptyDoc)

\* The union of two bags of rows: a row is in it as often as in the bag that
\* has it more often.
RowsUnion(a, b) ==
    [e \in DOMAIN a \cup DOMAIN b |->
        IF CopiesIn(e, a) >= CopiesIn(e, b) THEN CopiesIn(e, a) ELSE CopiesIn(e, b)]
OneWay(c, direction) ==
    get_connections_one_way([c EXCEPT !.tgts = <<direction>>]).prog[1]

\* C14: get_connections(identifier) returns the union of what the inbound
\* and the outbound lookup return on the same store: the edges with the
\* identifier as source or target, each as often as it is stored, a
\* self-loop included.
C14_ConnectionsAreUnion ==
    \A p \in Procs :
        Succeeded(p, "get_connections") =>
            LET i == call[p].ids[1]
                inb == OneWay(call[p], "connections_in")
                out == OneWay(call[p], "connections_out")
            IN /\ results[p].t = "rows"
               /\ results[p].v = RowsUnion(FetchEdges(snap[p], inb.sql, inb.params),
                                          FetchEdges(snap[p], out.sql, out.params))
               /\ \A e \in BagToSet(snap[p].edges) :
                     CopiesIn(e, results[p].v) =
                        IF e.source = i \/ e.target = i
                        THEN CopiesIn(e, snap[p].edges) ELSE 0

\* The lookup returned a self-loop of the node and an edge into it from
\* another node.
C14_Witness ==
    \E p \in Procs :
        /\ Succeeded(p, "get_connections")
        /\ \E e \in BagToSet(results[p].v) :
              e.source = call[p].ids[1] /\ e.target = call[p].ids[1]
        /\ \E e \in BagToSet(results[p].v) :
              e.source # call[p].ids[1] /\ e.target = call[p].ids[1]

\* A traversal of p without / with bodies, its serialized target, and the
\* steps of its loop.
IdsOnly(p) == call[p].op = "traverse" /\ call[p].ids[1] # "bodies"
WithBodies(p) == call[p].op = "traverse" /\ call[p].ids[1] = "bodies"
Target(p) == json_dumps_id(call[p].tgts[1])
NoDuplicates(sq) == \A j, k \in 1..Len(sq) : sq[j] = sq[k] => j = k
InLoop(p) == pc[p] = "unit" /\ prog[p] = <<LoopStmt>>
LoopStep(p) == InLoop(p) /\ pc'[p] = "unit"

\* C15: the path of an identifiers-only traversal never holds an identifier
\* twice, during the walk and in what it returns.
C15_PathHasNoDuplicates ==
    \A p \in Procs :
        IdsOnly(p) =>
            /\ NoDuplicates(path[p])
            /\ results[p] # Unset => NoDuplicates(results[p].v)

\* The walk is about to consume a row whose identifier is already in the
\* path.
C15_Witness ==
    \E p \in Procs :
        /\ IdsOnly(p) /\ InLoop(p)
        /\ rows[p] # << >>
        /\ InSeq(Head(rows[p])[1], path[p])

\* C16: an identifiers-only traversal consumes a row only while the target
\* is not in the path; appending the target ends the loop at once, with the
\* target last in the path; the loop ends otherwise only when the stream is
\* exhausted.
C16_StopsAtTarget ==
    [][\A p \in Procs :
         (IdsOnly(p) /\ LoopStep(p)) =>
            /\ rows'[p] # rows[p] => ~InSeq(Target(p), path[p])
            /\ (path'[p] # path[p] /\ path'[p][Len(path'[p])] = Target(p))
                  => prog'[p] = << >>
            /\ prog'[p] = << >> =>
                  \/ /\ path'[p] # path[p]
                     /\ path'[p][Len(path'[p])] = Target(p)
                  \/ /\ rows[p] = << >>
                     /\ ~InSeq(Target(p), path[p])]_vars

\* The walk has stopped at the target with a row left unread.
C16_Witness ==
    \E p \in Procs :
        /\ IdsOnly(p) /\ pc[p] = "unit" /\ prog[p] = << >>
        /\ rows[p] # << >>
        /\ path[p] # << >>
        /\ path[p][Len(path[p])] = Target(p)

\* C17: a traversal without a target has read its whole neighbor stream
\* when it returns.
C17_NoTargetRunsToExhaustion ==
    \A p \in Procs :
        (/\ call[p].op = "traverse"
         /\ call[p].tgts[1] = PyNone
         /\ pc[p] \in {"commit", "close"}
         /\ err[p] = "none")
        => rows[p] = << >>

C18_FixtureHaltsAtTarget ==
    \A p \in Procs :
        (/\ call[p].op = "traverse"
         /\ call[p].ids = <<"graph", "2">>
         /\ call[p].tgts[1] = PyStr("3")
         /\ pc[p] \in {"commit", "close"}
         /\ err[p] = "none")
        => /\ path[p] # << >>
           /\ path[p][Len(path[p])] = "3"
           /\ NoDuplicates(path[p])

\* C20: the query text a search hands to the engine is the same for every
\* binding list given the same clauses, key and tree flag, holds none of the
\* bound values, and the bindings are passed beside it as parameters.
C20_QueryTextIgnoresBindings ==
    \A p \in Procs :
        (call[p].op = "find_nodes" /\ pc[p] = "unit" /\ prog[p] # << >>) =>
            LET st == Head(prog[p]) IN
            /\ st.k = "search"
            /\ st.bindings = call[p].docs
            /\ \A b \in BindingLists :
                  find_nodes([call[p] EXCEPT !.docs = b]).prog[1].query = st.query
            /\ \A k \in 1..Len(call[p].docs) : ~InSeq(call[p].docs[k], st.query)

\* A tree search with a key, two clauses and two bound values is about to
\* be executed.
C20_Witness ==
    \E p \in Procs :
        /\ call[p].op = "find_nodes" /\ pc[p] = "unit" /\ prog[p] # << >>
        /\ Len(call[p].ids) = 2
        /\ Len(Head(prog[p]).bindings) = 2
        /\ call[p].tgts = <<"name", "True">>

\* The edge row of a connect_nodes call.
EdgeOf(c) ==
    [source |-> c.ids[1], target |-> c.tgts[1], properties |-> json_dumps(c.docs[1])]
RemoveOps == {"remove_node", "remove_nodes"}

\* C21: a step that leaves fewer copies of an edge in the committed store is
\* the commit of a remove_node or remove_nodes call that names the source or
\* the target of the edge and removes that node; no step of any other
\* operation takes an edge away.
C21_EdgesDieOnlyWithTheirNode ==
    [][\A e \in DOMAIN db.edges :
         CopiesIn(e, db'.edges) < CopiesIn(e, db.edges) =>
            \E p \in Procs :
               /\ pc[p] = "commit"
               /\ call[p].op \in RemoveOps
               /\ \E k \in 1..Len(call[p].ids) :
                     /\ call[p].ids[k] \in {e.source, e.target}
                     /\ call[p].ids[k] \in NodeIds(db)
                     /\ call[p].ids[k] \notin NodeIds(db')]_vars

\* remove_nodes of two nodes has taken an edge between them away.
C21_Witness ==
    \E p \in Procs :
        /\ Succeeded(p, "remove_nodes")
        /\ Len(call[p].ids) = 2
        /\ \E e \in DOMAIN snap[p].edges :
              /\ e.source # e.target
              /\ CopiesIn(e, db.edges) = 0

Single(c, k) ==
    CASE c.op = "add_nodes" ->
           MkCall("add_node", <<c.docs[k]>>, <<c.ids[k]>>, << >>, FALSE)
      [] c.op = "upsert_nodes" ->
           MkCall("upsert_node", <<c.docs[k]>>, <<c.ids[k]>>, << >>, FALSE)
      [] c.op = "connect_many_nodes" ->
           MkCall("connect_nodes", <<c.docs[k]>>, <<c.ids[k]>>, <<c.tgts[k]>>, FALSE)
      [] c.op = "remove_nodes" ->
           MkCall("remove_node", << >>, <<c.ids[k]>>, << >>, FALSE)
Elements(c) ==
    CASE c.op \in {"add_nodes", "upsert_nodes"} -> Min(Len(c.docs), Len(c.ids))
      [] c.op = "connect_many_nodes" ->
           Min(Min(Len(c.docs), Len(c.ids)), Len(c.tgts))
      [] c.op = "remove_nodes" -> Len(c.ids)

\* The statements pr of the unit of call c, run on st in one transaction with
\* foreign keys enforced: [ok, store].
RECURSIVE RunProg(_, _, _, _)
RunProg(st, c, pr, current) ==
    IF pr = << >> THEN Okay(st)
    ELSE LET stmt == Head(pr) IN
         IF stmt.k = "find"
         THEN RunProg(st, c, Tail(pr), find_node(st, stmt.id))
         ELSE LET q == IF stmt.k = "upsert"
                       THEN upsert_write(current, stmt.id, c.docs[stmt.j]).q
                       ELSE stmt.q
                  r == ExecuteSql(st, TRUE, q)
              IN IF r.ok THEN RunProg(r.store, c, Tail(pr), current) ELSE Fail(st)

\* The single-row operation of bulk call c applied to its elements k..n in
\* list order on st, inside one transaction.
RECURSIVE Singles(_, _, _, _)
Singles(c, st, k, n) ==
    IF k > n THEN Okay(st)
    ELSE LET r == RunProg(st, Single(c, k), Unit(Single(c, k)).prog, EmptyDoc)
         IN IF r.ok THEN Singles(c, r.store, k + 1, n) ELSE Fail(st)

\* C23: a bulk operation over lists of one length ends as its single-row
\* operation applied once per element in list order inside one transaction:
\* it fails exactly when that sequence fails, and when it succeeds the
\* committed store is the store that sequence leaves.
C23_BulkIsSequenceOfSingles ==
    \A p \in Procs :
        (/\ pc[p] = "close"
         /\ call[p].op \in BulkOps
         /\ err[p] \in {"none", "IntegrityError"})
        => LET r == Singles(call[p], snap[p], 1, Elements(call[p])) IN
           /\ r.ok <=> err[p] = "none"
           /\ err[p] = "none" => db = r.store

\* upsert_nodes has written one identifier twice: the first element
\* inserted the node, the second updated it.
C23_Witness ==
    \E p \in Procs :
        /\ Succeeded(p, "upsert_nodes")
        /\ Len(call[p].ids) = 2
        /\ call[p].ids[1] = call[p].ids[2]
        /\ call[p].ids[1] \notin NodeIds(snap[p])
        /\ call[p].ids[1] \in NodeIds(db)

ReadOnlyOps == {"find_node", "find_nodes", "get_connections",
                "get_connections_one_way", "traverse"}

\* C28: no step of a find_node, find_nodes, get_connections,
\* get_connections_one_way or traverse call changes the committed nodes,
\* their documents or the edges, and none of them writes in its transaction.
C28_ReadsLeaveTheStore ==
    [][\A p \in Procs :
         call[p].op \in ReadOnlyOps =>
            /\ db' = db
            /\ ~tx'[p]
            /\ pc[p] = "close" => db = snap[p]]_vars

\* A traversal over a store with nodes and edges has returned a path.
C28_Witness ==
    \E p \in Procs :
        /\ Succeeded(p, "traverse")
        /\ path[p] # << >>
        /\ db.nodes # {} /\ db.edges # EmptyBag

\* C29: remove_node for an identifier that no node has raises no integrity
\* error and leaves the nodes and the edges as they were.
C29_RemoveUnknownIsNoOp ==
    \A p \in Procs :
        (AtClose(p, "remove_node") /\ call[p].ids[1] \notin NodeIds(snap[p]))
        => /\ err[p] # "IntegrityError"
           /\ db = snap[p]
           /\ tx[p] => work[p] = snap[p]

\* remove_node of an identifier without a node has returned; the store holds
\* another node with an edge.
C29_Witness ==
    \E p \in Procs :
        /\ Succeeded(p, "remove_node")
        /\ call[p].ids[1] \notin NodeIds(snap[p])
        /\ snap[p].edges # EmptyBag
        /\ Len(ran[p]) = 2

\* The lists of a bulk call are not of one length.
Uneven(c) ==
    \/ c.op \in {"add_nodes", "upsert_nodes"} /\ Len(c.docs) # Len(c.ids)
    \/ /\ c.op = "connect_many_nodes"
       /\ ~(Len(c.docs) = Len(c.ids) /\ Len(c.ids) = Len(c.tgts))

\* C30: add_nodes, upsert_nodes and connect_many_nodes with lists of
\* different lengths raise no error for the difference and apply the
\* elements up to the length of the shortest list, nothing after them.
C30_UnevenListsAreCut ==
    \A p \in Procs :
        (/\ pc[p] = "close"
         /\ Uneven(call[p])
         /\ err[p] \in {"none", "IntegrityError"})
        => LET r == Singles(call[p], snap[p], 1, Elements(call[p])) IN
           /\ r.ok => /\ err[p] = "none"
                      /\ db = r.store
                      /\ Len(ran[p]) = Elements(call[p])
           /\ \A j \in 1..Len(call[p].docs) :
                 j > Elements(call[p]) => "id" \notin DOMAIN call[p].docs[j]

\* add_nodes with two documents and one identifier has added one node.
C30_Witness ==
    \E p \in Procs :
        /\ Succeeded(p, "add_nodes")
        /\ Len(call[p].docs) = 2 /\ Len(call[p].ids) = 1
        /\ Cardinality(db.nodes) = Cardinality(snap[p].nodes) + 1

\* The row ends the loop of a traversal of p: it names the target (and, with
\* bodies, is a node row).
StoppingRow(p, row) ==
    /\ row[1] = Target(p)
    /\ WithBodies(p) => row[2] = "()"
Walking(p) == call[p].op = "traverse" /\ pc[p] \in {"unit", "commit", "close"}

\* C25: a traversal that has begun its loop returns; once the neighbor query
\* has yielded its stream, every step of the loop takes the first unread row
\* and no other, no row is read after a stopping row or after the loop, and
\* the path is never longer than the rows read.
C25_TraverseTerminates ==
    /\ \A p \in Procs : InLoop(p) ~> pc[p] = "done"
    /\ [][\A p \in Procs :
            (Walking(p) /\ prog[p] # <<TraverseStmt>> /\ pc'[p] # "done") =>
               /\ seen'[p] \o rows'[p] = seen[p] \o rows[p]
               /\ Len(seen'[p]) \in {Len(seen[p]), Len(seen[p]) + 1}
               /\ ~InLoop(p) => seen'[p] = seen[p]]_vars
    /\ [](\A p \in Procs :
            Walking(p) =>
               /\ Len(path[p]) <= Len(seen[p])
               /\ \A k \in 1..(Len(seen[p]) - 1) : ~StoppingRow(p, seen[p][k]))

\* A traversal with bodies has returned after the stopping row, its first,
\* with a row left unread.
C25_Witness ==
    \E p \in Procs :
        /\ Succeeded(p, "traverse") /\ WithBodies(p)
        /\ Len(seen[p]) = 1
        /\ rows[p] # << >>
        /\ StoppingRow(p, seen[p][1])

\* The first occurrences of the elements of a sequence, in its order.
RECURSIVE FirstOccurrences(_)
FirstOccurrences(sq) ==
    IF sq = << >> THEN << >>
    ELSE LET front == FirstOccurrences(SubSeq(sq, 1, Len(sq) - 1))
             last == sq[Len(sq)]
         IN IF InSeq(last, front) THEN front ELSE Append(front, last)
SeenIds(p) == [k \in 1..Len(seen[p]) |-> seen[p][k][1]]

\* C26: the path of an identifiers-only traversal, during the walk and as
\* returned, is the sequence of first occurrences of the identifiers of the
\* rows read so far, in the order the stream yielded them.
C26_PathIsFirstOccurrences ==
    \A p \in Procs :
        (IdsOnly(p) /\ Walking(p)) =>
            /\ path[p] = FirstOccurrences(SeenIds(p))
            /\ results[p] # Unset => results[p] = PyList(FirstOccurrences(SeenIds(p)))

\* Two rows with one identifier were read: the path holds it once.
C26_Witness ==
    \E p \in Procs :
        /\ Succeeded(p, "traverse") /\ IdsOnly(p)
        /\ Len(seen[p]) = 2
        /\ SeenIds(p)[1] = SeenIds(p)[2]
        /\ path[p] = <<SeenIds(p)[1]>>

\* The calls of get_instance so far, in order.
GetInstanceCalls == SelectSeq(app.got, LAMBDA g : g.by = "get_instance")

\* C24: every call of get_instance returns a GraphDB object; the first call
\* constructs and initializes it, every later call returns the object of the
\* first and constructs none.
C24_GetInstanceIsSingleton ==
    \A k \in 1..Len(GetInstanceCalls) :
        /\ GetInstanceCalls[k].v.t = "GraphDB"
        /\ k > 1 => /\ GetInstanceCalls[k].v = GetInstanceCalls[1].v
                    /\ ~GetInstanceCalls[k].made

\* What graphviz_visualize has drawn so far.
Drawing == app.vpc \in {"render", "error"}

\* C27: while graphviz_visualize draws, no node name has been drawn twice
\* and no (source, target, properties) edge has been drawn twice.
C27_DrawnAtMostOnce ==
    Drawing =>
        /\ \A n \in DOMAIN app.nodes_drawn : app.nodes_drawn[n] = 1
        /\ \A e \in DOMAIN app.edges_drawn : app.edges_drawn[e] = 1

\* The drawing of a path that names a node twice is complete: both nodes and
\* an edge between them, which the connections of both hold, are drawn.
C27_Witness ==
    /\ app.vpc = "render" /\ app.at > Len(app.ids)
    /\ Len(app.vpath) = 2 /\ app.vpath[1] = app.vpath[2]
    /\ Len(app.ids) > Len(app.visited)
    /\ Cardinality(DOMAIN app.nodes_drawn) = 2
    /\ \E e \in DOMAIN app.edges_drawn : e.source # e.target

NodeWrites == {"add_node", "add_nodes", "upsert_node", "upsert_nodes"}

\* C31: during and after add_node, add_nodes, upsert_node and upsert_nodes
\* every dictionary the caller passed has the keys and values it had when
\* the caller passed it.
C31_CallerDocumentsUnchanged ==
    \A p \in Procs :
        call[p].op \in NodeWrites => call[p].docs = call[p].given

====
